---- MODULE Spec2Model ----
(***************************************************************************)
(* Model of package xio (src/io.go, second listing, lines 88-196):         *)
(* Copy, its worker goroutine, the caller's select and deferred wait,      *)
(* CopyN on top of io.LimitReader, ReadAll on top of a bytes.Buffer, and   *)
(* Copy with an explicit buffer (the Buffer option / CopyBuffer).          *)
(*                                                                         *)
(* One call is modelled per behaviour.  The caller, the worker goroutine   *)
(* and the environment (the source's Read, the sink's Write, the context's *)
(* cancellation) are interleaved processes.  Every worker step contains at *)
(* most one access to shared state (atomicN, errCh, ctx).                  *)
(***************************************************************************)
EXTENDS Integers, Sequences, FiniteSets, TLC

\* ------------------------------------------------------------------ bounds
MaxBuf   == 2    \* largest options.bufferSize tried
MaxLimit == 3    \* largest n given to CopyN
MaxReads == 2    \* the source ends (EOF or error) at the latest on this read

\* ------------------------------------------------------------------ errors
Nil          == "nil"
EOF          == "EOF"            \* io.EOF
ReadErr      == "ReadErr"        \* a real error of src.Read
WriteErr     == "WriteErr"       \* an error of dst.Write
InvalidWrite == "InvalidWrite"   \* errInvalidWrite
Canceled     == "Canceled"       \* ctx.Err() once ctx is done

VARIABLES
  op,          \* the function the caller invoked: "Copy", "CopyN",
               \* "CopyBuffer" or "ReadAll"
  wait,        \* options.WaitForLastWrite after the options were applied
  bufferSize,  \* options.bufferSize after the options were applied
  limit,       \* n of CopyN (0 for Copy)
  optBuffer,   \* len(options.buffer) after the options (0: no buffer)
  suppliedLen, \* len of the buffer the caller supplied (0: none)
  limited,     \* src of Copy is an *io.LimitedReader
  lrN,         \* lr.N, the bytes the LimitedReader may still deliver
  bufLen,      \* len(buf)
  buf,         \* the bytes of the working buffer
  dst,         \* the bytes of ReadAll's bytes.Buffer
  ctxDone,     \* ctx is canceled
  atomicN,     \* atomicN
  errCh,       \* the values buffered in errCh (capacity 1)
  errClosed,   \* errCh is closed
  workerPc,    \* position of the worker goroutine
  req,         \* len(p) of the read in flight on the underlying source
  rn, rErr,    \* result of src.Read(buf)
  wn, wErr,    \* result of dst.Write(buf[:rn])
  callerPc,    \* position of the caller
  retN, retErr,\* (n, err) of Copy
  outN, outErr,\* (written, err) of CopyN; err of ReadAll
  outBytes,    \* the bytes ReadAll returned
  \* ---- history variables (observations, never read by the program)
  ctxAtStart,  \* ctx was already canceled when the call started
  cancelPc,    \* workerPc when cancel() fired ("none" before)
  via,         \* the select case Copy took: "none", "done", "errCh"
  retWorkerPc, \* workerPc at the moment Copy returned ("none" before)
  srcReads,    \* number of src.Read calls the worker made
  reads,       \* len(p) of every Read issued on the underlying source
  delivered,   \* bytes returned by the reads of src
  given,       \* len of the slice handed to dst.Write in this cycle
  writes,      \* number of dst.Write calls
  offered,     \* bytes handed to dst.Write over the call
  sinkTotal,   \* sum of the counts in [0, len] that dst.Write returned
  badWrites,   \* dst.Write results with a count outside [0, len]
  shortWrites, \* dst.Write results with 0 <= n < len and a nil error
  failWrites,  \* dst.Write results with a non-nil error
  srcFills,    \* every underlying Read so far returned (len(p), nil)
  nBefore,     \* atomicN when the current cycle started
  lastChunk,   \* the bytes of the last non-empty chunk src delivered
  sent,        \* every value the worker sent on errCh, in order
  closes,      \* number of close(errCh) executed
  readsAfterCancel,  \* src.Read calls started after cancel() fired
  writesAfterCancel  \* dst.Write calls started after cancel() fired

vars == << op, wait, bufferSize, limit, limited, lrN, bufLen, ctxDone,
           atomicN, errCh, errClosed, workerPc, req, rn, rErr, wn, wErr,
           callerPc, retN, retErr, outN, outErr,
           ctxAtStart, cancelPc, via, retWorkerPc, srcReads, reads,
           delivered, given, writes, offered, sinkTotal, badWrites,
           shortWrites, failWrites, srcFills, nBefore,
           optBuffer, suppliedLen, buf, dst, outBytes, lastChunk, sent,
           closes, readsAfterCancel, writesAfterCancel >>

progVars == << op, wait, bufferSize, limit, optBuffer, suppliedLen >>
histVars == << ctxAtStart, cancelPc, via, retWorkerPc, srcReads, reads,
               delivered, given, writes, offered, sinkTotal, badWrites,
               shortWrites, failWrites, srcFills, nBefore >>

\* the byte contents and the later observations
dataVars == << buf, dst, outBytes, lastChunk >>
obsVars == << sent, closes, readsAfterCancel, writesAfterCancel >>

Min(a, b) == IF a < b THEN a ELSE b

RECURSIVE SumSeq(_)
SumSeq(s) == IF s = << >> THEN 0 ELSE Head(s) + SumSeq(Tail(s))

\* ------------------------------------------------------------- pure parts

\* io.go:129-135  the buffer is shrunk to lr.N, with a floor of 1
ResolveBufferSize(size, isLimited, n) ==
  IF isLimited /\ size > n
    THEN (IF n < 1 THEN 1 ELSE n)
    ELSE size

\* io.go:109-112  the defaults of copyoptions; 32*1024 is scaled down to the
\* largest buffer of the model, and buffer 0 stands for "no buffer"
Defaults == [bufferSize |-> MaxBuf, buffer |-> 0]

\* variant: BufferSize(value) also drops a buffer set before it
ApplyBufferSize_ClearsBuffer(o, v) ==
  [o EXCEPT !.bufferSize = v, !.buffer = 0]

\* part_002:17-21  BufferSize(value) sets c.bufferSize
ApplyBufferSize(o, v) == [o EXCEPT !.bufferSize = v]

\* part_002:23-27  Buffer(b) sets c.buffer
ApplyBuffer(o, len) == [o EXCEPT !.buffer = len]

ApplyOption(o, x) ==
  IF x.opt = "BufferSize" THEN ApplyBufferSize(o, x.v)
                          ELSE ApplyBuffer(o, x.v)

\* io.go:113-115  the options are applied in call order
RECURSIVE ApplyAll(_, _)
ApplyAll(o, opts) ==
  IF opts = << >> THEN o
  ELSE ApplyAll(ApplyOption(o, Head(opts)), Tail(opts))

\* the options of a call: BufferSize(k) and, when a buffer of length
\* len > 0 is supplied, Buffer(b), in either order
OptionList(k, len, bufferFirst) ==
  LET s == [opt |-> "BufferSize", v |-> k]
      b == [opt |-> "Buffer", v |-> len]
  IN  IF len = 0 THEN << s >>
      ELSE IF bufferFirst THEN << b, s >> ELSE << s, b >>

\* spec 3, 4.1: an explicit buffer wins over bufferSize, and its length is
\* the chunk size
WorkingBufLen(explicit, size) == IF explicit > 0 THEN explicit ELSE size

\* variant: the whole buffer is written, not only the bytes just read
WriteSlice_Whole(b, n) == b

\* io.go:144  the slice handed to dst.Write is buf[:rn]
WriteSlice(b, n) == SubSeq(b, 1, n)

\* bytes src delivers: the byte at stream position i has the value i
Chunk(from, n) == [i \in 1..n |-> from + i]

\* io.LimitedReader.Read: "if l.N <= 0 { return 0, EOF }"
LimitedExhausted(isLimited, n) == isLimited /\ n <= 0

\* variant: the LimitedReader hands the whole slice to the source
ReadLen_NoCut(len, isLimited, n) == len

\* io.LimitedReader.Read: "if int64(len(p)) > l.N { p = p[0:l.N] }"
ReadLen(len, isLimited, n) ==
  IF isLimited /\ len > n THEN n ELSE len

\* variant: a chunk that came with an error is not written
ShouldWrite_NoErr(n, e) == n > 0 /\ e = Nil

\* io.go:143  "if rn > 0"
ShouldWrite(n, e) == n > 0

\* variant: the upper bound of the count is not checked
IsInvalidWrite_NoUpper(w, r) == w < 0

\* variant: the lower bound of the count is not checked
IsInvalidWrite_NoLower(w, r) == w > r

\* variant: a short count is rejected as well
IsInvalidWrite_Short(w, r) == w # r

\* io.go:145  "if wn < 0 || wn > rn"
IsInvalidWrite(w, r) == w < 0 \/ w > r

\* variant: io.EOF is reported like any other read error
SurfacedReadErr_All(e) == TRUE

\* io.go:159  "if rErr != io.EOF"
SurfacedReadErr(e) == e # EOF

\* variant: the deferred function keeps the error of the select
DeferredErr_Keep(err, endErr) == err

\* variant: the deferred function keeps the count of the select
DeferredCount_Snapshot(snapshot, total) == snapshot

\* io.go:120-127  the deferred function: err and n after the wait
DeferredErr(err, endErr) == IF endErr # Nil THEN endErr ELSE err
DeferredCount(snapshot, total) == total

\* variant: the wait for the worker is never registered
AfterSelect_NeverWait(w) == "returned"

\* variant: the wait for the worker is registered in both modes
AfterSelect_AlwaysWait(w) == "deferred"

\* io.go:120, 171-176  where the caller goes after the select
AfterSelect(w) == IF w THEN "deferred" ELSE "returned"

\* variant: reaching the limit does not clear the error
CopyNResult_NoEq(written, err, n) ==
  IF written < n /\ err = Nil THEN << written, EOF >>
  ELSE << written, err >>

\* variant: a shortfall is end-of-data whatever the engine reported
CopyNResult_AnyErr(written, err, n) ==
  IF written = n THEN << n, Nil >>
  ELSE IF written < n THEN << written, EOF >>
  ELSE << written, err >>

\* variant: at the limit the engine's error is handed on
CopyNResult_EqKeepsErr(written, err, n) ==
  IF written = n THEN << n, err >>
  ELSE IF written < n /\ err = Nil THEN << written, EOF >>
  ELSE << written, err >>

\* io.go:182-189  CopyN's post-processing of Copy's result
CopyNResult(written, err, n) ==
  IF written = n THEN << n, Nil >>
  ELSE IF written < n /\ err = Nil THEN << written, EOF >>
  ELSE << written, err >>

\* io.go:118  errCh := make(chan error, 1)
ErrChCap == 1

\* variant: errCh has no buffer and no receiver is waiting
CanSend_Unbuffered == Len(errCh) < 0

\* a send on errCh completes without a receiver while the buffer has room
CanSend == Len(errCh) < ErrChCap

\* a receive on errCh is possible: a value is buffered, or it is closed
CanRecv == errCh # << >> \/ errClosed
\* the value a receive yields (the zero value nil from a closed channel)
RecvVal == IF errCh # << >> THEN Head(errCh) ELSE Nil
RecvRest == IF errCh # << >> THEN Tail(errCh) ELSE errCh

\* ------------------------------------------------------------------ Init
\* One call: its operation, its options and its limit.  A CopyBuffer call
\* supplies a buffer of len bytes together with a BufferSize option of a
\* different value, in either order.
Init ==
  /\ op \in {"Copy", "CopyN", "CopyBuffer", "ReadAll"}
  /\ wait \in (IF op = "ReadAll" THEN {TRUE} ELSE BOOLEAN)
  /\ \E len \in (IF op = "CopyBuffer" THEN 1..MaxBuf ELSE {0}),
        bufferFirst \in BOOLEAN :
     \E k \in (IF op = "CopyBuffer" THEN {(len % MaxBuf) + 1}
                                    ELSE 1..MaxBuf) :
       LET o == ApplyAll(Defaults, OptionList(k, len, bufferFirst))
       IN  /\ bufferSize = o.bufferSize
           /\ optBuffer = o.buffer
           /\ suppliedLen = len
  /\ limit \in (IF op = "CopyN" THEN 0..MaxLimit ELSE {0})
  /\ limited = FALSE
  /\ lrN = 0
  /\ bufLen = 0
  /\ buf = << >>
  /\ dst = << >>
  /\ outBytes = << >>
  /\ lastChunk = << >>
  /\ sent = << >>
  /\ closes = 0
  /\ readsAfterCancel = 0
  /\ writesAfterCancel = 0
  /\ ctxDone \in BOOLEAN
  /\ atomicN = 0
  /\ errCh = << >>
  /\ errClosed = FALSE
  /\ workerPc = "idle"
  /\ req = 0
  /\ rn = 0 /\ rErr = Nil
  /\ wn = 0 /\ wErr = Nil
  /\ callerPc = (IF op = "CopyN" THEN "copyN" ELSE "copy")
  /\ retN = 0 /\ retErr = Nil
  /\ outN = 0 /\ outErr = Nil
  /\ ctxAtStart = ctxDone
  /\ cancelPc = "none"
  /\ via = "none"
  /\ retWorkerPc = "none"
  /\ srcReads = 0
  /\ reads = << >>
  /\ delivered = 0
  /\ given = 0
  /\ writes = 0
  /\ offered = 0
  /\ sinkTotal = 0
  /\ badWrites = 0
  /\ shortWrites = 0
  /\ failWrites = 0
  /\ srcFills = TRUE
  /\ nBefore = 0

\* ---------------------------------------------------------------- caller

\* variant: src is handed to Copy without the LimitReader
CopyNCall_NoLimit ==
  /\ callerPc = "copyN"
  /\ limited' = FALSE
  /\ lrN' = limit
  /\ callerPc' = "copy"
  /\ UNCHANGED << progVars, bufLen, ctxDone, atomicN, errCh, errClosed,
                  workerPc, req, rn, rErr, wn, wErr, retN, retErr, outN,
                  outErr, histVars >>
  /\ UNCHANGED << buf, dst, outBytes, lastChunk, sent,
                  closes, readsAfterCancel, writesAfterCancel >>

\* io.go:181  Copy(ctx, dst, io.LimitReader(src, n), opts...)
CopyNCall ==
  /\ callerPc = "copyN"
  /\ limited' = TRUE
  /\ lrN' = limit
  /\ callerPc' = "copy"
  /\ UNCHANGED << progVars, bufLen, ctxDone, atomicN, errCh, errClosed,
                  workerPc, req, rn, rErr, wn, wErr, retN, retErr, outN,
                  outErr, histVars >>
  /\ UNCHANGED << buf, dst, outBytes, lastChunk, sent,
                  closes, readsAfterCancel, writesAfterCancel >>

\* io.go:109-139  options, errCh, the deferred wait, the buffer, go func().
\* (The use of options.buffer is not in io.go; it follows spec 4.1.)
CopyStart ==
  /\ callerPc = "copy"
  /\ bufLen' = WorkingBufLen(optBuffer,
                           ResolveBufferSize(bufferSize, limited, lrN))
  /\ buf' = [i \in 1..bufLen' |-> 0]
  /\ workerPc' = "read"
  /\ callerPc' = "select"
  /\ UNCHANGED << progVars, limited, lrN, ctxDone, atomicN, errCh,
                  errClosed, req, rn, rErr, wn, wErr, retN, retErr, outN,
                  outErr, histVars >>
  /\ UNCHANGED << dst, outBytes, lastChunk, sent, closes,
                  readsAfterCancel, writesAfterCancel >>

\* io.go:172-173  case <-ctx.Done(): return atomicN.Load(), ctx.Err()
SelectDone ==
  /\ callerPc = "select"
  /\ ctxDone
  /\ retN' = atomicN
  /\ retErr' = Canceled
  /\ via' = "done"
  /\ callerPc' = AfterSelect(wait)
  /\ retWorkerPc' = (IF AfterSelect(wait) = "returned" THEN workerPc
                                                       ELSE retWorkerPc)
  /\ UNCHANGED << progVars, limited, lrN, bufLen, ctxDone, atomicN, errCh,
                  errClosed, workerPc, req, rn, rErr, wn, wErr, outN,
                  outErr, ctxAtStart, cancelPc, srcReads, reads, delivered,
                  given, writes, offered, sinkTotal, badWrites, shortWrites,
                  failWrites, srcFills, nBefore >>
  /\ UNCHANGED << buf, dst, outBytes, lastChunk, sent,
                  closes, readsAfterCancel, writesAfterCancel >>

\* io.go:174-175  case err := <-errCh: return atomicN.Load(), err
SelectErrCh ==
  /\ callerPc = "select"
  /\ CanRecv
  /\ retN' = atomicN
  /\ retErr' = RecvVal
  /\ errCh' = RecvRest
  /\ via' = "errCh"
  /\ callerPc' = AfterSelect(wait)
  /\ retWorkerPc' = (IF AfterSelect(wait) = "returned" THEN workerPc
                                                       ELSE retWorkerPc)
  /\ UNCHANGED << progVars, limited, lrN, bufLen, ctxDone, atomicN,
                  errClosed, workerPc, req, rn, rErr, wn, wErr, outN,
                  outErr, ctxAtStart, cancelPc, srcReads, reads, delivered,
                  given, writes, offered, sinkTotal, badWrites, shortWrites,
                  failWrites, srcFills, nBefore >>
  /\ UNCHANGED << buf, dst, outBytes, lastChunk, sent,
                  closes, readsAfterCancel, writesAfterCancel >>

\* io.go:121-126  the deferred function of wait mode
Deferred ==
  /\ callerPc = "deferred"
  /\ CanRecv
  /\ retErr' = DeferredErr(retErr, RecvVal)
  /\ errCh' = RecvRest
  /\ retN' = DeferredCount(retN, atomicN)
  /\ callerPc' = "returned"
  /\ retWorkerPc' = workerPc
  /\ UNCHANGED << progVars, limited, lrN, bufLen, ctxDone, atomicN,
                  errClosed, workerPc, req, rn, rErr, wn, wErr, outN,
                  outErr, ctxAtStart, cancelPc, via, srcReads, reads,
                  delivered, given, writes, offered, sinkTotal, badWrites,
                  shortWrites, failWrites, srcFills, nBefore >>
  /\ UNCHANGED << buf, dst, outBytes, lastChunk, sent,
                  closes, readsAfterCancel, writesAfterCancel >>

\* io.go:182-189  CopyN's result
CopyNReturn ==
  /\ op = "CopyN"
  /\ callerPc = "returned"
  /\ outN' = CopyNResult(retN, retErr, limit)[1]
  /\ outErr' = CopyNResult(retN, retErr, limit)[2]
  /\ callerPc' = "final"
  /\ UNCHANGED << progVars, limited, lrN, bufLen, ctxDone, atomicN, errCh,
                  errClosed, workerPc, req, rn, rErr, wn, wErr, retN,
                  retErr, histVars >>
  /\ UNCHANGED << buf, dst, outBytes, lastChunk, sent,
                  closes, readsAfterCancel, writesAfterCancel >>

\* io.go:193-197  ReadAll returns dst.Bytes() and Copy's error
ReadAllReturn ==
  /\ op = "ReadAll"
  /\ callerPc = "returned"
  /\ outBytes' = dst
  /\ outErr' = retErr
  /\ callerPc' = "final"
  /\ UNCHANGED << progVars, limited, lrN, bufLen, ctxDone, atomicN, errCh,
                  errClosed, workerPc, req, rn, rErr, wn, wErr, retN,
                  retErr, outN, histVars, obsVars, buf, dst, lastChunk >>

\* ---------------------------------------------------------------- worker

\* io.go:142  src.Read(buf) is called.  A LimitedReader with N <= 0 answers
\* (0, EOF) at once; otherwise the underlying Read is issued with len(p)
\* cut to N.
WorkerRead ==
  /\ workerPc = "read"
  /\ srcReads' = srcReads + 1
  /\ readsAfterCancel' = (IF ctxDone THEN readsAfterCancel + 1
                                     ELSE readsAfterCancel)
  /\ nBefore' = atomicN
  /\ given' = 0
  /\ wn' = 0 /\ wErr' = Nil
  /\ IF LimitedExhausted(limited, lrN)
       THEN /\ rn' = 0 /\ rErr' = EOF
            /\ workerPc' = "afterRead"
            /\ UNCHANGED << req, reads >>
       ELSE /\ req' = ReadLen(bufLen, limited, lrN)
            /\ reads' = Append(reads, req')
            /\ workerPc' = "reading"
            /\ UNCHANGED << rn, rErr >>
  /\ UNCHANGED << progVars, limited, lrN, bufLen, ctxDone, atomicN, errCh,
                  errClosed, callerPc, retN, retErr, outN, outErr,
                  ctxAtStart, cancelPc, via, retWorkerPc, delivered, writes,
                  offered, sinkTotal, badWrites, shortWrites, failWrites,
                  srcFills >>
  /\ UNCHANGED << buf, dst, outBytes, lastChunk, sent,
                  closes, writesAfterCancel >>

\* io.go:142  the Read in flight returns (n, e), 0 <= n <= len(p).  The
\* source ends at the latest on read number MaxReads (a LimitedReader ends
\* by itself once its bound is used up).
ReadReturn ==
  /\ workerPc = "reading"
  /\ \E n \in 0..req, e \in {Nil, EOF, ReadErr} :
       /\ Len(reads) >= MaxReads => (e # Nil \/ (limited /\ n = lrN))
       /\ rn' = n
       /\ rErr' = e
       /\ lrN' = (IF limited THEN lrN - n ELSE lrN)
       /\ delivered' = delivered + n
       /\ buf' = [i \in 1..Len(buf) |->
                    IF i <= n THEN Chunk(delivered, n)[i] ELSE buf[i]]
       /\ lastChunk' = (IF n > 0 THEN Chunk(delivered, n) ELSE lastChunk)
       /\ srcFills' = (srcFills /\ n = req /\ e = Nil)
  /\ workerPc' = "afterRead"
  /\ UNCHANGED << progVars, limited, bufLen, ctxDone, atomicN, errCh,
                  errClosed, req, wn, wErr, callerPc, retN, retErr, outN,
                  outErr, ctxAtStart, cancelPc, via, retWorkerPc, srcReads,
                  reads, given, writes, offered, sinkTotal, badWrites,
                  shortWrites, failWrites, nBefore >>
  /\ UNCHANGED << dst, outBytes, sent, closes, readsAfterCancel,
                  writesAfterCancel >>

\* io.go:143-144  rn > 0: dst.Write(buf[:rn]) is called
WriteCall ==
  /\ workerPc = "afterRead"
  /\ ShouldWrite(rn, rErr)
  /\ given' = rn
  /\ writes' = writes + 1
  /\ writesAfterCancel' = (IF ctxDone THEN writesAfterCancel + 1
                                      ELSE writesAfterCancel)
  /\ offered' = offered + rn
  /\ workerPc' = "writing"
  /\ UNCHANGED << progVars, limited, lrN, bufLen, ctxDone, atomicN, errCh,
                  errClosed, req, rn, rErr, wn, wErr, callerPc, retN,
                  retErr, outN, outErr, ctxAtStart, cancelPc, via,
                  retWorkerPc, srcReads, reads, delivered, sinkTotal,
                  badWrites, shortWrites, failWrites, srcFills, nBefore >>
  /\ UNCHANGED << buf, dst, outBytes, lastChunk, sent,
                  closes, readsAfterCancel >>

\* io.go:143  rn = 0: the write is skipped
NoWrite ==
  /\ workerPc = "afterRead"
  /\ ~ShouldWrite(rn, rErr)
  /\ workerPc' = "checkRErr"
  /\ UNCHANGED << progVars, limited, lrN, bufLen, ctxDone, atomicN, errCh,
                  errClosed, req, rn, rErr, wn, wErr, callerPc, retN,
                  retErr, outN, outErr, histVars >>
  /\ UNCHANGED << buf, dst, outBytes, lastChunk, sent,
                  closes, readsAfterCancel, writesAfterCancel >>

\* io.go:144  the Write in flight returns (k, e).  Counts outside [0, len]
\* and short counts without an error are outside io.Writer's contract but
\* are results the code has to handle.  ReadAll's sink is a bytes.Buffer:
\* its Write appends the whole slice and returns (len, nil).
WriteReturn ==
  /\ workerPc = "writing"
  /\ \E k \in (-1)..(given + 1), e \in {Nil, WriteErr} :
       /\ op = "ReadAll" => (k = given /\ e = Nil)
       /\ wn' = k
       /\ wErr' = e
       /\ sinkTotal' = (IF k \in 0..given THEN sinkTotal + k ELSE sinkTotal)
       /\ badWrites' = (IF k \in 0..given THEN badWrites ELSE badWrites + 1)
       /\ shortWrites' = (IF k \in 0..(given - 1) /\ e = Nil
                            THEN shortWrites + 1 ELSE shortWrites)
       /\ failWrites' = (IF e # Nil THEN failWrites + 1 ELSE failWrites)
  /\ dst' = (IF op = "ReadAll" THEN dst \o WriteSlice(buf, rn) ELSE dst)
  /\ workerPc' = "validate"
  /\ UNCHANGED << progVars, limited, lrN, bufLen, ctxDone, atomicN, errCh,
                  errClosed, req, rn, rErr, callerPc, retN, retErr, outN,
                  outErr, ctxAtStart, cancelPc, via, retWorkerPc, srcReads,
                  reads, delivered, given, writes, offered, srcFills,
                  nBefore >>
  /\ UNCHANGED << buf, outBytes, lastChunk, sent, closes,
                  readsAfterCancel, writesAfterCancel >>

\* io.go:145-150  the count is validated, then added to atomicN
Validate ==
  /\ workerPc = "validate"
  /\ IF IsInvalidWrite(wn, rn)
       THEN /\ CanSend
            /\ errCh' = Append(errCh, InvalidWrite)
            /\ sent' = Append(sent, InvalidWrite)
            /\ workerPc' = "exit"
            /\ UNCHANGED atomicN
       ELSE /\ atomicN' = atomicN + wn
            /\ workerPc' = "afterAdd"
            /\ UNCHANGED << errCh, sent >>
  /\ UNCHANGED << progVars, limited, lrN, bufLen, ctxDone, errClosed, req,
                  rn, rErr, wn, wErr, callerPc, retN, retErr, outN, outErr,
                  histVars >>
  /\ UNCHANGED << buf, dst, outBytes, lastChunk, closes,
                  readsAfterCancel, writesAfterCancel >>

\* variant: the read error of the cycle is looked at before the write error
AfterAdd_ReadErrFirst ==
  /\ workerPc = "afterAdd"
  /\ IF rErr # Nil /\ SurfacedReadErr(rErr)
       THEN /\ CanSend
            /\ errCh' = Append(errCh, rErr)
            /\ sent' = Append(sent, rErr)
            /\ workerPc' = "exit"
       ELSE IF wErr # Nil
         THEN /\ CanSend
              /\ errCh' = Append(errCh, wErr)
              /\ sent' = Append(sent, wErr)
              /\ workerPc' = "exit"
         ELSE /\ workerPc' = "checkRErr"
              /\ UNCHANGED << errCh, sent >>
  /\ UNCHANGED << progVars, limited, lrN, bufLen, ctxDone, atomicN,
                  errClosed, req, rn, rErr, wn, wErr, callerPc, retN,
                  retErr, outN, outErr, histVars >>
  /\ UNCHANGED << buf, dst, outBytes, lastChunk, closes,
                  readsAfterCancel, writesAfterCancel >>

\* io.go:152-155  a write error is reported
AfterAdd ==
  /\ workerPc = "afterAdd"
  /\ IF wErr # Nil
       THEN /\ CanSend
            /\ errCh' = Append(errCh, wErr)
            /\ sent' = Append(sent, wErr)
            /\ workerPc' = "exit"
       ELSE /\ workerPc' = "checkRErr"
            /\ UNCHANGED << errCh, sent >>
  /\ UNCHANGED << progVars, limited, lrN, bufLen, ctxDone, atomicN,
                  errClosed, req, rn, rErr, wn, wErr, callerPc, retN,
                  retErr, outN, outErr, histVars >>
  /\ UNCHANGED << buf, dst, outBytes, lastChunk, closes,
                  readsAfterCancel, writesAfterCancel >>

\* io.go:158-163  the read error ends the worker; io.EOF is not reported
CheckRErr ==
  /\ workerPc = "checkRErr"
  /\ IF rErr # Nil
       THEN /\ SurfacedReadErr(rErr) => CanSend
            /\ errCh' = (IF SurfacedReadErr(rErr) THEN Append(errCh, rErr)
                                                  ELSE errCh)
            /\ sent' = (IF SurfacedReadErr(rErr) THEN Append(sent, rErr)
                                                 ELSE sent)
            /\ workerPc' = "exit"
       ELSE /\ workerPc' = "pollCtx"
            /\ UNCHANGED << errCh, sent >>
  /\ UNCHANGED << progVars, limited, lrN, bufLen, ctxDone, atomicN,
                  errClosed, req, rn, rErr, wn, wErr, callerPc, retN,
                  retErr, outN, outErr, histVars >>
  /\ UNCHANGED << buf, dst, outBytes, lastChunk, closes,
                  readsAfterCancel, writesAfterCancel >>

\* variant: the worker never looks at the context
PollCtx_Never ==
  /\ workerPc = "pollCtx"
  /\ workerPc' = "read"
  /\ UNCHANGED << progVars, limited, lrN, bufLen, ctxDone, atomicN, errCh,
                  errClosed, req, rn, rErr, wn, wErr, callerPc, retN,
                  retErr, outN, outErr, histVars, dataVars, obsVars >>

\* io.go:164-167  ctx.Err() is polled at the end of the cycle
PollCtx ==
  /\ workerPc = "pollCtx"
  /\ IF ctxDone
       THEN /\ CanSend
            /\ errCh' = Append(errCh, Canceled)
            /\ sent' = Append(sent, Canceled)
            /\ workerPc' = "exit"
       ELSE /\ workerPc' = "read"
            /\ UNCHANGED << errCh, sent >>
  /\ UNCHANGED << progVars, limited, lrN, bufLen, ctxDone, atomicN,
                  errClosed, req, rn, rErr, wn, wErr, callerPc, retN,
                  retErr, outN, outErr, histVars >>
  /\ UNCHANGED << buf, dst, outBytes, lastChunk, closes,
                  readsAfterCancel, writesAfterCancel >>

\* io.go:140  defer close(errCh)
WorkerExit ==
  /\ workerPc = "exit"
  /\ errClosed' = TRUE
  /\ closes' = closes + 1
  /\ workerPc' = "done"
  /\ UNCHANGED << progVars, limited, lrN, bufLen, ctxDone, atomicN, errCh,
                  req, rn, rErr, wn, wErr, callerPc, retN, retErr, outN,
                  outErr, histVars >>
  /\ UNCHANGED << buf, dst, outBytes, lastChunk, sent,
                  readsAfterCancel, writesAfterCancel >>

\* ----------------------------------------------------------- environment

\* cancel() of the context, at any moment after the call started at which
\* the call can still observe it: the caller observes it in the select, the
\* worker in its loop.
Cancel ==
  /\ ~ctxDone
  /\ callerPc \notin {"copyN", "copy"}
  /\ callerPc = "select" \/ workerPc \notin {"exit", "done"}
  /\ ctxDone' = TRUE
  /\ cancelPc' = workerPc
  /\ UNCHANGED << progVars, limited, lrN, bufLen, atomicN, errCh, errClosed,
                  workerPc, req, rn, rErr, wn, wErr, callerPc, retN, retErr,
                  outN, outErr, ctxAtStart, via, retWorkerPc, srcReads,
                  reads, delivered, given, writes, offered, sinkTotal,
                  badWrites, shortWrites, failWrites, srcFills, nBefore >>
  /\ UNCHANGED << buf, dst, outBytes, lastChunk, sent,
                  closes, readsAfterCancel, writesAfterCancel >>

Next ==
  \/ CopyNCall
  \/ CopyStart
  \/ SelectDone
  \/ SelectErrCh
  \/ Deferred
  \/ CopyNReturn
  \/ ReadAllReturn
  \/ WorkerRead
  \/ ReadReturn
  \/ WriteCall
  \/ NoWrite
  \/ WriteReturn
  \/ Validate
  \/ AfterAdd
  \/ CheckRErr
  \/ PollCtx
  \/ WorkerExit
  \/ Cancel

Spec == Init /\ [][Next]_vars

\* the steps of the worker goroutine itself
Worker ==
  \/ WorkerRead
  \/ WriteCall
  \/ NoWrite
  \/ Validate
  \/ AfterAdd
  \/ CheckRErr
  \/ PollCtx
  \/ WorkerExit

\* The goroutine is scheduled whenever it can run, and every Read and Write
\* in flight returns.
FairSpec ==
  /\ Spec
  /\ WF_vars(Worker)
  /\ WF_vars(ReadReturn)
  /\ WF_vars(WriteReturn)

\* ------------------------------------------------------------ vocabulary
Errors == {Nil, EOF, ReadErr, WriteErr, InvalidWrite, Canceled}
WorkerPcs == {"idle", "read", "reading", "afterRead", "writing", "validate",
              "afterAdd", "checkRErr", "pollCtx", "exit", "done"}
\* the worker is inside a read/write cycle
CyclePcs == {"reading", "afterRead", "writing", "validate", "afterAdd",
             "checkRErr", "pollCtx"}
\* Copy has returned to its caller
Returned == callerPc \in {"returned", "final"}

TypeOK ==
  /\ op \in {"Copy", "CopyN", "CopyBuffer", "ReadAll"}
  /\ wait \in BOOLEAN
  /\ ctxDone \in BOOLEAN
  /\ workerPc \in WorkerPcs
  /\ callerPc \in {"copyN", "copy", "select", "deferred", "returned", "final"}
  /\ retErr \in Errors /\ outErr \in Errors
  /\ rErr \in Errors /\ wErr \in Errors
  /\ Len(errCh) <= 1
  /\ atomicN \in Int /\ retN \in Int

\* ================================================================ claims

\* the sink accepted every write in full: count = len, nil error
WritesAllFull == badWrites = 0 /\ shortWrites = 0 /\ failWrites = 0
\* the count of this cycle's write, as far as it lies in [0, len]
AcceptedNow == IF wn \in 0..given THEN wn ELSE 0
\* the write of the worker's last cycle returned a valid count and an error
CycleWriteFailed == given > 0 /\ wn \in 0..given /\ wErr # Nil
\* the read of the worker's last cycle returned a real error, and the write
\* of its bytes (if any) raised nothing
CycleReadFailed ==
  rErr = ReadErr /\ (given = 0 \/ (wn \in 0..given /\ wErr = Nil))

\* C1: a call of Copy whose token is already canceled when the call starts
\* returns (0, token error) and issues no read on the source and no write
\* on the sink, in either wait mode.
C1_CanceledCallIsNoop ==
  ctxAtStart =>
    /\ srcReads = 0
    /\ writes = 0
    /\ Returned => (retN = 0 /\ retErr = Canceled)

\* C2: in wait mode, when cancellation fires while a read/write cycle is in
\* flight, Copy returns only once that cycle has finished, and the count it
\* returns is the total the sink accepted over the whole call, the write in
\* flight at cancellation included.
C2_WaitReturnsFinalTotal ==
  (wait /\ cancelPc \in CyclePcs /\ Returned) =>
    /\ retWorkerPc \in {"exit", "done"}
    /\ workerPc \in {"exit", "done"}
    /\ retN = sinkTotal
    /\ retN = atomicN

\* C2 witness: cancel() fired during a write, the select took ctx.Done(),
\* and Copy still returned the whole buffer that write accepted.
C2_Witness ==
  /\ wait /\ Returned
  /\ cancelPc = "writing" /\ via = "done"
  /\ retErr = Canceled
  /\ retN = bufLen /\ retN > 0

\* C3: in no-wait mode, when the select observes the cancellation, Copy
\* returns the token's error at once, without entering the wait for the
\* worker (so also while a Write is still in flight), and the count it
\* returns is a snapshot that never exceeds what the sink has accepted, then
\* or later.
C3_NoWaitSnapshot ==
  /\ ~wait => callerPc # "deferred"
  /\ (~wait /\ Returned /\ via = "done") =>
       /\ retErr = Canceled
       /\ retN <= atomicN
       /\ retN <= sinkTotal

\* C3 witness: Copy returned (0, Canceled) while the Write was in flight,
\* and that Write later completed with a nonzero count.
C3_Witness ==
  /\ ~wait /\ Returned /\ via = "done"
  /\ cancelPc = "writing"
  /\ retWorkerPc = "writing"
  /\ workerPc = "done"
  /\ retN = 0 /\ retErr = Canceled
  /\ sinkTotal > 0

\* C4: in wait mode, when the token is canceled during a cycle and that
\* cycle ends in a write error or a real read error, Copy returns that error
\* and the final total; it returns the cancellation error only if the worker
\* did not fail for another reason.
C4_WaitWorkerErrorWins ==
  /\ (wait /\ Returned /\ cancelPc \in CyclePcs) =>
       /\ CycleWriteFailed => (retErr = WriteErr /\ retN = sinkTotal)
       /\ CycleReadFailed => (retErr = ReadErr /\ retN = sinkTotal)
  /\ (wait /\ Returned /\ retErr = Canceled) =>
       /\ ~CycleWriteFailed
       /\ ~CycleReadFailed
       /\ badWrites = 0

\* C4 witness: cancel() fired during the cycle, the select took ctx.Done(),
\* and the deferred wait replaced the cancellation error by the write error.
C4_Witness ==
  /\ wait /\ Returned
  /\ cancelPc \in {"reading", "writing"} /\ via = "done"
  /\ retErr = WriteErr /\ retN > 0

\* C5 as stated: when a Write has returned a count outside [0, len] (and
\* the worker has stopped on it) by the time Copy returns, Copy returns the
\* invalid-write error and the total from before that cycle.
C5_InvalidWriteAlwaysReturned ==
  (~ctxAtStart /\ badWrites > 0 /\ Returned
     /\ retWorkerPc \in {"exit", "done"}) =>
    (retErr = InvalidWrite /\ retN = nBefore)

\* C5 as amended: once a Write returned a count outside [0, len], the count
\* is not added to the total and the worker issues no further read or write;
\* Copy returns (total before that cycle, invalid-write error) unless, in
\* no-wait mode, it returns through the cancellation case of its select.
C5_InvalidWriteStops ==
  badWrites > 0 =>
    /\ badWrites = 1
    /\ workerPc \in {"validate", "exit", "done"}
    /\ atomicN = nBefore
    /\ (Returned /\ (wait \/ via = "errCh")) =>
         (retErr = InvalidWrite /\ retN = nBefore)

\* C5 witness: the second cycle's Write returned an impossible count; Copy
\* returned the invalid-write error with the first cycle's total.
C5_Witness ==
  /\ badWrites = 1 /\ Returned
  /\ retErr = InvalidWrite
  /\ srcReads = 2 /\ retN = nBefore /\ retN > 0

\* C6 as stated: a Write that accepts fewer bytes than given and reports no
\* error is fatal: the worker goes no further and Copy returns the
\* invalid-write error.
C6_ShortWriteIsFatal ==
  (shortWrites > 0 /\ ~ctxDone) =>
    /\ workerPc \in {"validate", "exit", "done"}
    /\ Returned => retErr = InvalidWrite

\* C6 as amended: a Write that accepts fewer bytes than given and reports no
\* error is not an error for the engine: its count is added to the total,
\* no invalid-write error is raised for it, and the worker goes on with the
\* rest of the cycle and the next read; the bytes left over are not retried.
C6_ShortWriteContinues ==
  (shortWrites > 0 /\ badWrites = 0) =>
    /\ InvalidWrite \notin {errCh[i] : i \in 1..Len(errCh)}
    /\ retErr # InvalidWrite
    /\ workerPc # "validate" => atomicN = sinkTotal

\* C6 witness: after a short write without error the worker read again, the
\* source ended, and Copy returned nil with fewer bytes than were delivered.
C6_Witness ==
  /\ shortWrites > 0 /\ badWrites = 0 /\ failWrites = 0
  /\ Returned /\ workerPc = "done"
  /\ srcReads >= 2
  /\ retErr = Nil
  /\ retN < delivered

\* C7: a source that delivers K bytes in any chunking and then ends cleanly,
\* a sink that accepts every write in full, no cancellation: Copy returns
\* (K, nil); io.EOF is not surfaced and every byte is counted once.
C7_CleanCopyReturnsAll ==
  (Returned /\ ~ctxDone /\ WritesAllFull /\ rErr # ReadErr) =>
    /\ retErr = Nil
    /\ retN = delivered
    /\ sinkTotal = delivered

\* C7 witness: two chunks, the last returned together with io.EOF.
C7_Witness ==
  /\ Returned /\ ~ctxDone /\ WritesAllFull
  /\ Len(reads) >= 2
  /\ rn > 0 /\ rErr = EOF
  /\ retErr = Nil /\ retN = delivered /\ retN >= 2

\* C8 as stated: when a read has returned n > 0 bytes with a real error and
\* the sink has accepted them (the worker has stopped on the read error) by
\* the time Copy returns, Copy returns (previous total + accepted, read
\* error).
C8_ReadErrorAlwaysReturned ==
  (~ctxAtStart /\ rn > 0 /\ rErr = ReadErr /\ CycleReadFailed
     /\ Returned /\ retWorkerPc \in {"exit", "done"}) =>
    /\ given = rn
    /\ retErr = ReadErr
    /\ retN = nBefore + AcceptedNow

\* C8 as amended: when a read returned n > 0 bytes with a real error, the
\* bytes are first written to the sink and, the sink accepting them, the
\* count is added and only then the read error is reported; Copy returns
\* (previous total + accepted, read error) unless, in no-wait mode, it
\* returns through the cancellation case of its select.
C8_ReadErrorAfterWrite ==
  (rn > 0 /\ rErr = ReadErr /\ workerPc \in {"exit", "done"}) =>
    /\ given = rn
    /\ CycleReadFailed =>
         /\ atomicN = nBefore + AcceptedNow
         /\ (Returned /\ (wait \/ via = "errCh")) =>
              (retErr = ReadErr /\ retN = nBefore + AcceptedNow)

\* C8 witness: the second read returned bytes and a real error; the bytes
\* were written and Copy returned the read error with both chunks counted.
C8_Witness ==
  /\ rn > 0 /\ rErr = ReadErr /\ Returned
  /\ srcReads = 2 /\ nBefore > 0
  /\ wn = rn /\ wErr = Nil
  /\ retErr = ReadErr /\ retN = nBefore + rn

\* C9: CopyN with limit 0 returns (0, nil) and never reads the underlying
\* source nor writes to the sink, whatever the token's state and the
\* options.
C9_CopyNZero ==
  (op = "CopyN" /\ limit = 0) =>
    /\ reads = << >>
    /\ writes = 0
    /\ callerPc = "final" => (outN = 0 /\ outErr = Nil)

\* C9 witness: CopyN(0) returned in no-wait mode on a canceled token.
C9_Witness ==
  /\ op = "CopyN" /\ limit = 0 /\ callerPc = "final"
  /\ ctxAtStart /\ ~wait /\ via = "done"
  /\ outN = 0 /\ outErr = Nil

\* the i-th request equals min(bufferSize, limit - bytes requested before)
ChunkAsExpected(i) ==
  reads[i] = Min(bufferSize, limit - SumSeq(SubSeq(reads, 1, i - 1)))

\* C10: CopyN with limit L >= 1 and buffer size B on a source that always
\* fills the buffer: every request is min(B, remaining), the requests never
\* exceed the remaining bound, and without cancellation and with a sink
\* that accepts everything they sum to L and CopyN returns (L, nil).
C10_CopyNChunks ==
  (op = "CopyN" /\ limit >= 1 /\ srcFills) =>
    /\ \A i \in 1..Len(reads) : ChunkAsExpected(i)
    /\ SumSeq(reads) <= limit
    /\ (callerPc = "final" /\ ~ctxDone /\ WritesAllFull) =>
         /\ SumSeq(reads) = limit
         /\ outN = limit
         /\ outErr = Nil

\* C10 witness: L = 3, B = 2 gives the requests [2, 1] and (3, nil).
C10_Witness ==
  /\ op = "CopyN" /\ limit = 3 /\ bufferSize = 2
  /\ srcFills /\ ~ctxDone /\ WritesAllFull
  /\ callerPc = "final"
  /\ reads = << 2, 1 >>
  /\ outN = 3 /\ outErr = Nil

\* C11: CopyN returns the synthesized end-of-data error exactly when the
\* engine reported no error and fewer than limit bytes were written; with a
\* sink that keeps its contract this is the case only when the underlying
\* source signalled end-of-data before it had delivered limit bytes, and a
\* source that delivers K < limit bytes and then ends gives (K, EOF).
C11_CopyNEndOfData ==
  (op = "CopyN" /\ callerPc = "final") =>
    /\ (outErr = EOF) <=> (retErr = Nil /\ retN < limit)
    /\ (outErr = EOF /\ shortWrites = 0) =>
         (rErr = EOF /\ delivered < limit /\ outN = delivered)
    /\ (rErr = EOF /\ delivered < limit /\ ~ctxDone /\ WritesAllFull) =>
         (outN = delivered /\ outErr = EOF)

\* C11 witness: the source delivered 2 of 3 bytes in two reads and ended.
C11_Witness ==
  /\ op = "CopyN" /\ callerPc = "final" /\ limit = 3
  /\ ~ctxDone /\ WritesAllFull
  /\ Len(reads) = 2 /\ delivered = 2 /\ rErr = EOF
  /\ outN = 2 /\ outErr = EOF

\* C12: when the engine's count equals the limit, CopyN returns
\* (limit, nil) whatever error the engine reported; when the count is below
\* the limit and the engine reported an error, CopyN returns that count and
\* that error unchanged.
C12_CopyNLimitReached ==
  (op = "CopyN" /\ callerPc = "final") =>
    /\ retN = limit => (outN = limit /\ outErr = Nil)
    /\ (retN < limit /\ retErr # Nil) => (outN = retN /\ outErr = retErr)

\* C12 witness: the write of the final chunk accepted it and failed; the
\* engine reported the write error and CopyN returned (limit, nil).
C12_Witness ==
  /\ op = "CopyN" /\ callerPc = "final" /\ limit >= 2
  /\ retN = limit /\ retErr = WriteErr
  /\ outN = limit /\ outErr = Nil

\* C13: ReadAll returns the concatenation, in order, of every chunk the
\* source delivered (nothing lost, duplicated or reordered although one
\* buffer is reused for all chunks) together with the engine's error as it
\* is: nil when the source ended cleanly and nothing was canceled,
\* otherwise the read error or the cancellation error.
C13_ReadAllConcatenates ==
  (op = "ReadAll" /\ callerPc = "final") =>
    /\ outBytes = Chunk(0, delivered)
    /\ outBytes = dst
    /\ outErr = retErr
    /\ outErr \in {Nil, ReadErr, Canceled}
    /\ (rErr = EOF /\ ~ctxDone) => outErr = Nil
    /\ rErr = ReadErr => outErr = ReadErr

\* C13 witness: three bytes came as a chunk of two and a chunk of one into
\* the same two-byte buffer, then end-of-data; ReadAll returned them in
\* order with a nil error.
C13_Witness ==
  /\ op = "ReadAll" /\ callerPc = "final"
  /\ bufLen = 2 /\ lastChunk = << 3 >> /\ buf = << 3, 2 >>
  /\ rErr = EOF
  /\ outBytes = << 1, 2, 3 >> /\ outErr = Nil

C15_TotalMonotone ==
  /\ [](atomicN <= sinkTotal /\ retN <= sinkTotal /\ retN <= atomicN)
  /\ [][/\ atomicN' >= atomicN
        /\ atomicN' # atomicN =>
             /\ workerPc = "validate" /\ workerPc' = "afterAdd"
             /\ atomicN' = atomicN + wn
             /\ callerPc' = callerPc]_vars

\* C15 witness: a no-wait call returned a nonzero snapshot below the total
\* the worker reached afterwards.
C15_Witness ==
  /\ ~wait /\ Returned /\ workerPc = "done"
  /\ retN > 0 /\ retN < atomicN
  /\ atomicN = sinkTotal

\* C16: on every exit path the worker sends at most one error on errCh and
\* closes it exactly once; no send ever waits for a receiver, so the worker
\* can always take its next step, whatever the caller has done; and once
\* started, with every Read and Write returning and the source ending, the
\* worker terminates.
C16_SignalsOnceAndTerminates ==
  /\ [](/\ Len(errCh) <= ErrChCap
        /\ Len(sent) <= 1
        /\ closes = (IF workerPc = "done" THEN 1 ELSE 0)
        /\ errClosed <=> workerPc = "done"
        /\ workerPc \notin {"idle", "reading", "writing", "done"} =>
             ENABLED Worker)
  /\ (workerPc = "read") ~> (workerPc = "done")

\* C16 witness: a no-wait call returned on cancellation without receiving;
\* the worker then sent its error into the buffer and closed the channel.
C16_Witness ==
  /\ ~wait /\ Returned /\ via = "done"
  /\ retWorkerPc \in CyclePcs
  /\ workerPc = "done"
  /\ errCh = << WriteErr >> /\ sent = << WriteErr >>
  /\ errClosed /\ closes = 1

\* C17: cancellation does not touch the worker: the step that cancels
\* leaves the worker where it is, a Read or Write in flight ends only by
\* returning, the worker reports cancellation only from the poll at the end
\* of a cycle, and after the cancellation it starts at most one more Read
\* and at most one more Write.
C17_CooperativeCancel ==
  /\ [](readsAfterCancel <= 1 /\ writesAfterCancel <= 1)
  /\ [][/\ (ctxDone' /\ ~ctxDone) =>
             UNCHANGED << workerPc, req, rn, rErr, wn, wErr, errCh, sent >>
        /\ (workerPc = "reading" /\ workerPc' # workerPc) =>
             workerPc' = "afterRead"
        /\ (workerPc = "writing" /\ workerPc' # workerPc) =>
             workerPc' = "validate"
        /\ (sent' # sent /\ sent' = << Canceled >>) =>
             (workerPc = "pollCtx" /\ ctxDone)]_vars

\* C17 witness: the context was canceled just after the poll of the first
\* cycle; the worker still did one whole cycle and then stopped on the poll.
C17_Witness ==
  /\ ctxDone /\ ~ctxAtStart /\ cancelPc = "read"
  /\ srcReads = 2 /\ writes = 2
  /\ readsAfterCancel = 1 /\ writesAfterCancel = 1
  /\ rErr = Nil /\ wErr = Nil
  /\ sent = << Canceled >>
  /\ workerPc = "done"

\* what the last cycle of a stopped worker has to report, by precedence:
\* invalid write, write error, end-of-data (nothing) or read error,
\* cancellation
ExpectedReport ==
  IF given > 0 /\ wn \notin 0..given THEN << InvalidWrite >>
  ELSE IF wErr # Nil THEN << wErr >>
  ELSE IF rErr = EOF THEN << >>
  ELSE IF rErr # Nil THEN << rErr >>
  ELSE << Canceled >>

\* C18: the worker stops at the first terminal condition and reports that
\* one only, in the order invalid write, write error, end-of-data or read
\* error, observed cancellation; while it runs nothing has been reported and
\* no earlier cycle ended in an error; once it has stopped no Read or Write
\* is started and nothing more is reported.
C18_FirstTerminalCondition ==
  /\ [](/\ workerPc \in {"exit", "done"} =>
             (sent = ExpectedReport /\ (sent = << Canceled >> => ctxDone))
        /\ workerPc \notin {"exit", "done"} => sent = << >>
        /\ rErr # Nil =>
             workerPc \in {"afterRead", "writing", "validate", "afterAdd",
                           "checkRErr", "exit", "done"}
        /\ (wErr # Nil \/ wn \notin 0..given) =>
             workerPc \in {"validate", "afterAdd", "exit", "done"}
        /\ badWrites <= 1 /\ failWrites <= 1)
  /\ [][(workerPc \in {"exit", "done"}) =>
          UNCHANGED << srcReads, reads, writes, offered, sent, atomicN >>]_vars

\* C18 witness: the last Read returned data with an error and the Write of
\* that data failed too; the write error is the one reported.
C18_Witness ==
  /\ workerPc = "done"
  /\ rn > 0 /\ rErr = ReadErr
  /\ wn = rn /\ wErr = WriteErr
  /\ sent = << WriteErr >>
  /\ srcReads = 2 /\ writes = 2

\* C19: ReadAll always runs in wait mode, and in wait mode Copy returns
\* only when the worker has left its loop, on every path; after the return
\* no Read or Write is started or in flight and the working buffer, the
\* sink and the total are not touched any more, so the bytes ReadAll hands
\* out are the final content of its sink.
C19_WaitReturnsAfterWorker ==
  /\ [](/\ op = "ReadAll" => wait
        /\ (wait /\ Returned) =>
             /\ retWorkerPc \in {"exit", "done"}
             /\ workerPc \in {"exit", "done"}
        /\ (op = "ReadAll" /\ callerPc = "final") => outBytes = dst)
  /\ [][(wait /\ Returned) =>
          UNCHANGED << srcReads, reads, delivered, writes, offered,
                       sinkTotal, atomicN, buf, dst, lastChunk, req, rn,
                       rErr, wn, wErr, errCh, sent >>]_vars

\* C19 witness: ReadAll was canceled while a Write was in flight and the
\* caller left the select through ctx.Done(); it still returned only after
\* the worker had finished, with both bytes of that Write.
C19_Witness ==
  /\ op = "ReadAll" /\ callerPc = "final"
  /\ via = "done" /\ ~ctxAtStart /\ cancelPc = "writing"
  /\ workerPc = "done"
  /\ outBytes = << 1, 2 >> /\ outErr = Canceled
  /\ retN = 2

\* C20: in a CopyN with limit L, in both wait modes and for every moment
\* of cancellation and every result of Read and Write, the source delivers
\* and the sink is offered at most L bytes, the total stays within what was
\* offered, and the count returned lies in 0..L.
C20_CopyNWithinLimit ==
  op = "CopyN" =>
    /\ delivered <= limit
    /\ offered <= limit
    /\ 0 <= atomicN /\ atomicN <= offered
    /\ Returned => (0 <= retN /\ retN <= limit)
    /\ callerPc = "final" => (0 <= outN /\ outN <= limit)

\* C20 witness: a no-wait CopyN of three bytes was canceled after its first
\* chunk and returned 2; the worker then offered the last byte, reaching the
\* limit exactly.
C20_Witness ==
  /\ op = "CopyN" /\ limit = 3 /\ ~wait
  /\ callerPc = "final" /\ via = "done" /\ ~ctxAtStart
  /\ outN = 2 /\ outErr = Canceled
  /\ workerPc = "done"
  /\ offered = 3 /\ atomicN = 3

====
